---- MODULE Spec2Model ----
(***************************************************************************)
(* rgrcat: a colourising filter.  A configuration file is parsed into an   *)
(* ordered list of ColourConfig rules; every line of standard input is run *)
(* through the rules and printed.                                          *)
(*                                                                         *)
(* A Rust String is modelled as a sequence of one-character strings.  The  *)
(* control characters are the tokens ESC (0x1b), NUL (0x00), TAB, LF, CR.  *)
(***************************************************************************)
EXTENDS Integers, Sequences, FiniteSets, TLC

ESC == "ESC"
NUL == "NUL"
TAB == "TAB"
LF == "LF"
CR == "CR"

\* char::is_ascii_alphabetic
AsciiAlphabetic ==
  { "a", "b", "c", "d", "e", "f", "g", "h", "i", "j", "k", "l", "m",
    "n", "o", "p", "q", "r", "s", "t", "u", "v", "w", "x", "y", "z",
    "A", "B", "C", "D", "E", "F", "G", "H", "I", "J", "K", "L", "M",
    "N", "O", "P", "Q", "R", "S", "T", "U", "V", "W", "X", "Y", "Z" }

\* char::is_whitespace, as far as the characters of the model go
WhiteSpace == { " ", TAB, LF, CR }

(***************************************************************************)
(* The str methods the program calls.                                      *)
(***************************************************************************)

\* str::starts_with
StartsWith(s, p) ==
  /\ Len(p) <= Len(s)
  /\ SubSeq(s, 1, Len(p)) = p

\* does p occur in s at (1-based) index i
OccursAt(s, p, i) ==
  /\ i + Len(p) - 1 <= Len(s)
  /\ SubSeq(s, i, i + Len(p) - 1) = p

RECURSIVE ReplaceFrom(_, _, _, _)
ReplaceFrom(s, from, to, i) ==
  IF from = <<>>
  THEN \* an empty pattern matches at every character boundary
       IF i > Len(s) THEN to
       ELSE to \o <<s[i]>> \o ReplaceFrom(s, from, to, i + 1)
  ELSE IF i > Len(s) THEN <<>>
       ELSE IF OccursAt(s, from, i)
            THEN to \o ReplaceFrom(s, from, to, i + Len(from))
            ELSE <<s[i]>> \o ReplaceFrom(s, from, to, i + 1)

\* str::replace: every non-overlapping occurrence of from, left to right
Replace(s, from, to) == ReplaceFrom(s, from, to, 1)

RECURSIVE SplitFrom(_, _, _, _)
SplitFrom(s, c, i, cur) ==
  IF i > Len(s) THEN << cur >>
  ELSE IF s[i] = c
       THEN << cur >> \o SplitFrom(s, c, i + 1, <<>>)
       ELSE SplitFrom(s, c, i + 1, Append(cur, s[i]))

\* str::split(char): the pieces between the separators, empty ones included
Split(s, c) == SplitFrom(s, c, 1, <<>>)

\* str::splitn(2, c): at most two pieces, cut at the first separator
SplitN2(s, c) ==
  IF \E i \in 1..Len(s) : s[i] = c
  THEN LET i == CHOOSE j \in 1..Len(s) :
                  /\ s[j] = c
                  /\ \A h \in 1..(j - 1) : s[h] # c
       IN  << SubSeq(s, 1, i - 1), SubSeq(s, i + 1, Len(s)) >>
  ELSE << s >>

RECURSIVE trim_end(_)
\* str::trim_end: every trailing whitespace character is removed
trim_end(s) ==
  IF s # <<>> /\ s[Len(s)] \in WhiteSpace
  THEN trim_end(SubSeq(s, 1, Len(s) - 1))
  ELSE s

(***************************************************************************)
(* get_colour: the colour name table.                                      *)
(***************************************************************************)
colour_map ==
  {
    <<<<"n", "o", "n", "e">>, <<>>>>,
    <<<<"d", "e", "f", "a", "u", "l", "t">>, <<ESC, "[", "0", "m">>>>,
    <<<<"b", "o", "l", "d">>, <<ESC, "[", "1", "m">>>>,
    <<<<"u", "n", "d", "e", "r", "l", "i", "n", "e">>, <<ESC, "[", "4", "m">>>>,
    <<<<"b", "l", "i", "n", "k">>, <<ESC, "[", "5", "m">>>>,
    <<<<"r", "e", "v", "e", "r", "s", "e">>, <<ESC, "[", "7", "m">>>>,
    <<<<"c", "o", "n", "c", "e", "a", "l", "e", "d">>, <<ESC, "[", "8", "m">>>>,
    <<<<"b", "l", "a", "c", "k">>, <<ESC, "[", "3", "0", "m">>>>,
    <<<<"r", "e", "d">>, <<ESC, "[", "3", "1", "m">>>>,
    <<<<"g", "r", "e", "e", "n">>, <<ESC, "[", "3", "2", "m">>>>,
    <<<<"y", "e", "l", "l", "o", "w">>, <<ESC, "[", "3", "3", "m">>>>,
    <<<<"b", "l", "u", "e">>, <<ESC, "[", "3", "4", "m">>>>,
    <<<<"m", "a", "g", "e", "n", "t", "a">>, <<ESC, "[", "3", "5", "m">>>>,
    <<<<"c", "y", "a", "n">>, <<ESC, "[", "3", "6", "m">>>>,
    <<<<"w", "h", "i", "t", "e">>, <<ESC, "[", "3", "7", "m">>>>,
    <<<<"o", "n", "_", "b", "l", "a", "c", "k">>, <<ESC, "[", "4", "0", "m">>>>,
    <<<<"o", "n", "_", "r", "e", "d">>, <<ESC, "[", "4", "1", "m">>>>,
    <<<<"o", "n", "_", "g", "r", "e", "e", "n">>, <<ESC, "[", "4", "2", "m">>>>,
    <<<<"o", "n", "_", "y", "e", "l", "l", "o", "w">>, <<ESC, "[", "4", "3", "m">>>>,
    <<<<"o", "n", "_", "b", "l", "u", "e">>, <<ESC, "[", "4", "4", "m">>>>,
    <<<<"o", "n", "_", "m", "a", "g", "e", "n", "t", "a">>, <<ESC, "[", "4", "5", "m">>>>,
    <<<<"o", "n", "_", "c", "y", "a", "n">>, <<ESC, "[", "4", "6", "m">>>>,
    <<<<"o", "n", "_", "w", "h", "i", "t", "e">>, <<ESC, "[", "4", "7", "m">>>>,
    <<<<"b", "e", "e", "p">>, <<NUL, "0", "7">>>>,
    <<<<"p", "r", "e", "v", "i", "o", "u", "s">>, <<"p", "r", "e", "v">>>>,
    <<<<"u", "n", "c", "h", "a", "n", "g", "e", "d">>, <<"u", "n", "c", "h", "a", "n", "g", "e", "d">>>>,
    <<<<"d", "a", "r", "k">>, <<ESC, "[", "2", "m">>>>,
    <<<<"i", "t", "a", "l", "i", "c">>, <<ESC, "[", "3", "m">>>>,
    <<<<"r", "a", "p", "i", "d", "b", "l", "i", "n", "k">>, <<ESC, "[", "6", "m">>>>,
    <<<<"s", "t", "r", "i", "k", "e", "t", "h", "r", "o", "u", "g", "h">>, <<ESC, "[", "9", "m">>>>,
    <<<<"b", "r", "i", "g", "h", "t", "_", "b", "l", "a", "c", "k">>, <<ESC, "[", "3", "0", ";", "9", "0", "m">>>>,
    <<<<"b", "r", "i", "g", "h", "t", "_", "r", "e", "d">>, <<ESC, "[", "3", "1", ";", "9", "1", "m">>>>,
    <<<<"b", "r", "i", "g", "h", "t", "_", "g", "r", "e", "e", "n">>, <<ESC, "[", "3", "2", ";", "9", "2", "m">>>>,
    <<<<"b", "r", "i", "g", "h", "t", "_", "y", "e", "l", "l", "o", "w">>, <<ESC, "[", "3", "3", ";", "9", "3", "m">>>>,
    <<<<"b", "r", "i", "g", "h", "t", "_", "b", "l", "u", "e">>, <<ESC, "[", "3", "4", ";", "9", "4", "m">>>>,
    <<<<"b", "r", "i", "g", "h", "t", "_", "m", "a", "g", "e", "n", "t", "a">>, <<ESC, "[", "3", "5", ";", "9", "5", "m">>>>,
    <<<<"b", "r", "i", "g", "h", "t", "_", "c", "y", "a", "n">>, <<ESC, "[", "3", "6", ";", "9", "6", "m">>>>,
    <<<<"b", "r", "i", "g", "h", "t", "_", "w", "h", "i", "t", "e">>, <<ESC, "[", "3", "7", ";", "9", "7", "m">>>>,
    <<<<"o", "n", "_", "b", "r", "i", "g", "h", "t", "_", "b", "l", "a", "c", "k">>, <<ESC, "[", "4", "0", ";", "1", "0", "0", "m">>>>,
    <<<<"o", "n", "_", "b", "r", "i", "g", "h", "t", "_", "r", "e", "d">>, <<ESC, "[", "4", "1", ";", "1", "0", "1", "m">>>>,
    <<<<"o", "n", "_", "b", "r", "i", "g", "h", "t", "_", "g", "r", "e", "e", "n">>, <<ESC, "[", "4", "2", ";", "1", "0", "2", "m">>>>,
    <<<<"o", "n", "_", "b", "r", "i", "g", "h", "t", "_", "y", "e", "l", "l", "o", "w">>, <<ESC, "[", "4", "3", ";", "1", "0", "3", "m">>>>,
    <<<<"o", "n", "_", "b", "r", "i", "g", "h", "t", "_", "b", "l", "u", "e">>, <<ESC, "[", "4", "4", ";", "1", "0", "4", "m">>>>,
    <<<<"o", "n", "_", "b", "r", "i", "g", "h", "t", "_", "m", "a", "g", "e", "n", "t", "a">>, <<ESC, "[", "4", "5", ";", "1", "0", "5", "m">>>>,
    <<<<"o", "n", "_", "b", "r", "i", "g", "h", "t", "_", "c", "y", "a", "n">>, <<ESC, "[", "4", "6", ";", "1", "0", "6", "m">>>>,
    <<<<"o", "n", "_", "b", "r", "i", "g", "h", "t", "_", "w", "h", "i", "t", "e">>, <<ESC, "[", "4", "7", ";", "1", "0", "7", "m">>>>
  }

ColourDefault == <<ESC, "[", "0", "m">>

Unchanged == <<"u", "n", "c", "h", "a", "n", "g", "e", "d">>

get_colour(colour_name) ==
  IF \E e \in colour_map : e[1] = colour_name
  THEN (CHOOSE e \in colour_map : e[1] = colour_name)[2]
  ELSE ColourDefault

RECURSIVE PushColours(_, _)
\* the inner loop of get_colour_list: the tokens of one group
PushColours(colour_list, tokens) ==
  IF tokens = <<>> THEN colour_list
  ELSE PushColours(IF Head(tokens) # <<>>
                   THEN Append(colour_list, get_colour(Head(tokens)))
                   ELSE colour_list,
                   Tail(tokens))

RECURSIVE PushGroups(_, _)
\* the outer loop of get_colour_list: the groups between commas
PushGroups(colour_list, groups) ==
  IF groups = <<>> THEN colour_list
  ELSE PushGroups(PushColours(colour_list, Split(Head(groups), " ")),
                  Tail(groups))

get_colour_list(raw_colour) == PushGroups(<<>>, Split(raw_colour, ","))

(***************************************************************************)
(* ColourConfig and the configuration parser.                              *)
(***************************************************************************)
K_regexp == <<"r", "e", "g", "e", "x", "p">>
K_colours == <<"c", "o", "l", "o", "u", "r", "s">>
K_colo == <<"c", "o", "l", "o">>
K_count == <<"c", "o", "u", "n", "t">>
K_command == <<"c", "o", "m", "m", "a", "n", "d">>
K_skip == <<"s", "k", "i", "p">>
K_replace == <<"r", "e", "p", "l", "a", "c", "e">>
K_concat == <<"c", "o", "n", "c", "a", "t">>
V_more == <<"m", "o", "r", "e">>
V_block == <<"b", "l", "o", "c", "k">>
V_unblock == <<"u", "n", "b", "l", "o", "c", "k">>
V_yes == <<"y", "e", "s">>
V_one == <<"1">>
V_true == <<"t", "r", "u", "e">>

\* ColourConfig::new
ColourConfig_new ==
  [ regexp  |-> <<>>,
    colours |-> << <<>> >>,
    count   |-> V_more,
    command |-> <<>>,
    skip    |-> <<>>,
    replace |-> <<>>,
    concat  |-> <<>> ]

\* one iteration of the loop of ColourConfig::insert_content
insert_item(self, item) ==
  IF item[1] = K_regexp THEN [self EXCEPT !.regexp = item[2]]
  ELSE IF item[1] = K_colours
       THEN [self EXCEPT !.colours = get_colour_list(item[2])]
  ELSE IF item[1] = K_count THEN [self EXCEPT !.count = item[2]]
  ELSE IF item[1] = K_command THEN [self EXCEPT !.command = item[2]]
  ELSE IF item[1] = K_skip THEN [self EXCEPT !.skip = item[2]]
  ELSE IF item[1] = K_replace THEN [self EXCEPT !.replace = item[2]]
  ELSE IF item[1] = K_concat THEN [self EXCEPT !.concat = item[2]]
  ELSE self  \* "... is not key" on standard error

RECURSIVE insert_content(_, _)
\* ColourConfig::insert_content
insert_content(self, content) ==
  IF content = <<>> THEN self
  ELSE insert_content(insert_item(self, Head(content)), Tail(content))

\* is_config_split_line without its comment branch
is_config_split_line_no_comment(line) ==
  IF line = <<>> THEN FALSE
  ELSE IF line[1] \notin AsciiAlphabetic THEN TRUE
  ELSE FALSE

is_config_split_line(line) ==
  IF StartsWith(line, <<"#">>) THEN FALSE
  ELSE IF line = <<>> THEN FALSE
  ELSE IF line[1] \notin AsciiAlphabetic THEN TRUE
  ELSE FALSE

\* parse_config_line: <<>> is None, << <<key, value>> >> is Some((key, value))
parse_config_line(line) ==
  IF StartsWith(line, <<"#">>) THEN <<>>
  ELSE IF line = <<>> THEN <<>>
  ELSE LET key_val == SplitN2(line, "=")
       IN  IF Len(key_val) # 2 THEN <<>>
           ELSE LET key == IF StartsWith(key_val[1], K_colo)
                           THEN K_colours
                           ELSE key_val[1]
                IN  << << key, key_val[2] >> >>

RECURSIVE parse_config_loop(_, _, _)
\* the for loop of parse_config: <<key_val_list, config_list>> after the lines
parse_config_loop(lines, key_val_list, config_list) ==
  IF lines = <<>> THEN << key_val_list, config_list >>
  ELSE IF is_config_split_line(Head(lines))
       THEN parse_config_loop(
              Tail(lines), <<>>,
              Append(config_list,
                     insert_content(ColourConfig_new, key_val_list)))
       ELSE parse_config_loop(
              Tail(lines),
              key_val_list \o parse_config_line(Head(lines)),
              config_list)

\* parse_config, on the lines of a readable file
parse_config(lines) ==
  LET after == parse_config_loop(lines, <<>>, <<>>)
  IN  Append(after[2], insert_content(ColourConfig_new, after[1]))

(***************************************************************************)
(* The regex crate, for the patterns of the model: the empty pattern,      *)
(* literal characters, top-level alternation `|` of literals, and `(`,     *)
(* which opens a group nothing closes.                                     *)
(***************************************************************************)

\* Regex::new(..) is Ok: no group is left open
RegexNewOk(regexp) == \A i \in 1..Len(regexp) : regexp[i] # "("

\* the compiled pattern: its alternatives in order
RegexNew(regexp) == Split(regexp, "|")

RECURSIVE first_alt(_, _, _, _)
\* leftmost-first: the first alternative, from a on, that matches text at
\* 0-based offset s, or 0
first_alt(re, text, s, a) ==
  IF a > Len(re) THEN 0
  ELSE IF OccursAt(text, re[a], s + 1) THEN a
  ELSE first_alt(re, text, s, a + 1)

RECURSIVE find_at(_, _, _)
\* leftmost-first search from offset start: <<>> or << <<s, e>> >>
find_at(re, text, start) ==
  IF start > Len(text) THEN <<>>
  ELSE IF first_alt(re, text, start, 1) # 0
       THEN << << start, start + Len(re[first_alt(re, text, start, 1)]) >> >>
       ELSE find_at(re, text, start + 1)

RECURSIVE find_iter_from(_, _, _, _)
\* Matches::next: an empty match right at the end of the previous match is
\* passed over, and the search resumes one character after an empty match
find_iter_from(re, text, last_end, last_match) ==
  IF last_end > Len(text) THEN <<>>
  ELSE LET m == find_at(re, text, last_end)
       IN  IF m = <<>> THEN <<>>
           ELSE LET s == m[1][1]
                    e == m[1][2]
                IN  IF s = e
                    THEN IF e = last_match
                         THEN find_iter_from(re, text, e + 1, last_match)
                         ELSE m \o find_iter_from(re, text, e + 1, e)
                    ELSE m \o find_iter_from(re, text, e, e)

\* Regex::find_iter: the non-overlapping matches, as 0-based <<start, end>>
find_iter(re, text) == find_iter_from(re, text, 0, -1)

(***************************************************************************)
(* The line colouriser.                                                    *)
(***************************************************************************)
\* get_colour_str without its push_str(&content)
get_colour_str_no_content(content, colour) ==
  colour \o get_colour(<<"d", "e", "f", "a", "u", "l", "t">>)

get_colour_str(content, colour) ==
  colour \o content \o get_colour(<<"d", "e", "f", "a", "u", "l", "t">>)

RECURSIVE get_colour_line_loop(_, _, _, _)
\* the for loop of get_colour_line_by_re over the matches ms
get_colour_line_loop(line, colour, ms, result) ==
  IF ms = <<>> THEN result
  ELSE LET match_str == SubSeq(line, Head(ms)[1] + 1, Head(ms)[2])
           colour_str == get_colour_str(match_str, colour)
       IN  get_colour_line_loop(line, colour, Tail(ms),
                                Replace(line, match_str, colour_str))

get_colour_line_by_re(line, colour, re) ==
  get_colour_line_loop(line, colour, find_iter(re, line), line)

IsBlock(config) == config.count = V_block

IsUnblock(config) == config.count # V_block /\ config.count = V_unblock

IsPattern(config) == config.count # V_block /\ config.count # V_unblock

\* only colours[0] is compared with "unchanged"
HasUnchanged_first(config) ==
  /\ config.colours # <<>>
  /\ config.colours[1] = Unchanged

\* colours.contains("unchanged")
HasUnchanged(config) ==
  \E i \in 1..Len(config.colours) : config.colours[i] = Unchanged

\* the body of the loop of get_output_line_by_config panics on this rule:
\* colours[0] of an empty list, or unwrap of a pattern that does not compile
RulePanics(config) ==
  \/ IsBlock(config) /\ config.colours = <<>>
  \/ /\ IsPattern(config)
     /\ ~HasUnchanged(config)
     /\ ~RegexNewOk(config.regexp) \/ config.colours = <<>>

\* result after the body of the loop of get_output_line_by_config for one
\* rule that does not panic, line being the function's argument
rule_result(config, line, result) ==
  IF IsBlock(config) THEN result
  ELSE IF IsUnblock(config) THEN result
  ELSE IF ~HasUnchanged(config)
       THEN get_colour_line_by_re(result, config.colours[1],
                                  RegexNew(config.regexp))
       ELSE result

\* what the body of the loop computes for one rule: the text it works on
rule_arg(config, line, result) ==
  IF IsBlock(config) \/ IsUnblock(config) THEN line ELSE result

\* what the body of the loop computes for one rule: the value it produces
rule_ret(config, line, result) ==
  IF IsBlock(config) THEN get_colour_str(line, config.colours[1])
  ELSE IF IsUnblock(config)
       THEN get_colour_str(line, get_colour(<<"d", "e", "f", "a", "u", "l", "t">>))
  ELSE rule_result(config, line, result)

Panicked == << "panic" >>

RECURSIVE get_output_line_from(_, _, _, _)
get_output_line_from(line, config_list, i, result) ==
  IF i > Len(config_list) THEN result
  ELSE IF RulePanics(config_list[i]) THEN Panicked
  ELSE get_output_line_from(line, config_list, i + 1,
                            rule_result(config_list[i], line, result))

\* get_output_line_by_config: the returned String, or Panicked
get_output_line_by_config(line, config_list) ==
  get_output_line_from(line, config_list, 1, line)

\* the loop of is_skip_input_line returns true at the first rule whose skip
\* is "yes", "1" or "true": for the first rule only
is_skip_input_line_first(config_list) ==
  /\ config_list # <<>>
  /\ \/ config_list[1].skip = V_yes
     \/ config_list[1].skip = V_one
     \/ config_list[1].skip = V_true

is_skip_input_line(config_list) ==
  \E i \in 1..Len(config_list) :
    \/ config_list[i].skip = V_yes
    \/ config_list[i].skip = V_one
    \/ config_list[i].skip = V_true

(***************************************************************************)
(* The inputs of the model: configuration texts and standard input lines.  *)
(***************************************************************************)
MaxRules == 2
MaxLines == 2
MaxConfigLines == 3
MaxPieces == 3
\* the longest current line the model applies a pattern to
MaxLen == 11

KV(key, value) == key \o <<"=">> \o value

C_red == <<"r", "e", "d">>
C_bold == <<"b", "o", "l", "d">>
C_blue == <<"b", "l", "u", "e">>
R_a_or_b == <<"a", "|", "b">>
R_open == <<"(">>

\* the blocks a configuration text of the stream model is made of
BlockMenu ==
  { <<>>,
    << KV(K_regexp, R_a_or_b), KV(K_colours, C_red) >>,
    << KV(K_regexp, <<"m">>), KV(<<"c", "o", "l", "o", "r">>, C_bold),
       KV(K_count, <<"o", "n", "c", "e">>) >>,
    << KV(K_regexp, <<"a">>), KV(K_colours, C_blue \o <<",">> \o C_bold) >>,
    << KV(K_regexp, R_a_or_b), KV(K_colours, C_red \o <<" ">> \o Unchanged) >>,
    << KV(K_regexp, R_open), KV(K_colours, Unchanged),
       KV(K_skip, <<"n", "o">>) >>,
    << KV(K_regexp, R_open), KV(K_colours, C_red) >>,
    << KV(K_regexp, <<"a">>), KV(K_colours, <<>>) >>,
    << KV(K_count, V_block), KV(K_colours, C_blue) >>,
    << KV(K_count, V_unblock) >>,
    << KV(K_skip, V_yes) >>,
    << KV(K_regexp, R_open), KV(K_colours, C_red), KV(K_skip, V_one) >>,
    << KV(K_skip, V_true), KV(K_count, V_block) >> }

SplitLine == <<"-">>

RECURSIVE JoinBlocks(_)
\* the blocks, with a separator line between two of them
JoinBlocks(blocks) ==
  IF Len(blocks) = 1 THEN blocks[1]
  ELSE blocks[1] \o << SplitLine >> \o JoinBlocks(Tail(blocks))

ConfigTexts ==
  { JoinBlocks(blocks) :
      blocks \in UNION { [1..n -> BlockMenu] : n \in 1..MaxRules } }

\* what read_line can put into the buffer: the line with its terminator,
\* or a last line that has none
InputLines ==
  { <<"a", "b", LF>>,
    <<"a", "b", " ", LF>>,
    <<"b", "a", "a", CR, LF>>,
    <<LF>>,
    <<"m", "a">> }

VARIABLES
  text,         \* the lines of the configuration file
  config_list,  \* main's config_list
  pc,           \* "parse", "read", "check", "rule", "done", "exit", "panic"
  input,        \* process_stdio's read buffer
  atEnd,        \* the last line read had no terminator: end of stream follows
  line,         \* get_output_line_by_config's argument
  result,       \* get_output_line_by_config's result
  k,            \* index of the rule the loop is at
  prev,         \* history: result before the last rule
  ruleIn,       \* history: the text the last rule worked on
  ruleRet,      \* history: the value the last rule produced
  nRead,        \* lines read from standard input
  nWritten,     \* lines written to standard output
  lastRead,     \* history: the last line read
  out           \* the last line written to standard output

vars ==
  << text, config_list, pc, input, atEnd, line, result, k, prev, ruleIn,
     ruleRet, nRead, nWritten, lastRead, out >>

colourVars == << line, result, k, prev, ruleIn, ruleRet >>

InitRest ==
  /\ config_list = <<>>
  /\ pc = "parse"
  /\ input = <<>>
  /\ atEnd = FALSE
  /\ line = <<>>
  /\ result = <<>>
  /\ k = 1
  /\ prev = <<>>
  /\ ruleIn = <<>>
  /\ ruleRet = <<>>
  /\ nRead = 0
  /\ nWritten = 0
  /\ lastRead = <<>>
  /\ out = <<>>

Init ==
  /\ text \in ConfigTexts
  /\ InitRest

\* main: parse_config(..) of a readable file, then process_stdio
ParseConfig ==
  /\ pc = "parse"
  /\ config_list' = parse_config(text)
  /\ pc' = "read"
  /\ UNCHANGED << text, input, atEnd, nRead, nWritten, lastRead, out >>
  /\ UNCHANGED colourVars

\* read_line returns Ok(n), n > 0
ReadLine ==
  /\ pc = "read"
  /\ ~atEnd
  /\ nRead < MaxLines
  /\ \E l \in InputLines :
       /\ input' = l
       /\ lastRead' = l
       /\ atEnd' = (l[Len(l)] # LF)
  /\ nRead' = nRead + 1
  /\ pc' = "check"
  /\ UNCHANGED << text, config_list, nWritten, out >>
  /\ UNCHANGED colourVars

\* read_line returns Ok(0): break
ReadEof ==
  /\ pc = "read"
  /\ pc' = "done"
  /\ UNCHANGED << text, config_list, input, atEnd, nRead, nWritten, lastRead, out >>
  /\ UNCHANGED colourVars

\* read_line returns Err: exit(-1)
ReadError ==
  /\ pc = "read"
  /\ ~atEnd
  /\ pc' = "exit"
  /\ UNCHANGED << text, config_list, input, atEnd, nRead, nWritten, lastRead, out >>
  /\ UNCHANGED colourVars

\* is_skip_input_line is true: nothing is printed, input.clear()
SkipLine ==
  /\ pc = "check"
  /\ is_skip_input_line(config_list)
  /\ input' = <<>>
  /\ pc' = "read"
  /\ UNCHANGED << text, config_list, atEnd, nRead, nWritten, lastRead, out >>
  /\ UNCHANGED colourVars

\* is_skip_input_line is false: trim_end, enter get_output_line_by_config
BeginLine ==
  /\ pc = "check"
  /\ ~is_skip_input_line(config_list)
  /\ line' = trim_end(input)
  /\ result' = trim_end(input)
  /\ prev' = trim_end(input)
  /\ ruleIn' = <<>>
  /\ ruleRet' = <<>>
  /\ k' = 1
  /\ pc' = "rule"
  /\ UNCHANGED << text, config_list, input, atEnd, nRead, nWritten, lastRead, out >>

\* the loop body for a rule it does not panic on
RuleDone ==
  /\ prev' = result
  /\ ruleIn' = rule_arg(config_list[k], line, result)
  /\ ruleRet' = rule_ret(config_list[k], line, result)
  /\ result' = rule_result(config_list[k], line, result)
  /\ k' = k + 1
  /\ UNCHANGED << text, config_list, pc, input, atEnd, line, nRead,
                  nWritten, lastRead, out >>

\* count = "block"
RuleBlock ==
  /\ pc = "rule"
  /\ k <= Len(config_list)
  /\ IsBlock(config_list[k])
  /\ ~RulePanics(config_list[k])
  /\ RuleDone

\* count = "unblock"
RuleUnblock ==
  /\ pc = "rule"
  /\ k <= Len(config_list)
  /\ IsUnblock(config_list[k])
  /\ RuleDone

\* any other count, colours without "unchanged"
RulePattern ==
  /\ pc = "rule"
  /\ k <= Len(config_list)
  /\ IsPattern(config_list[k])
  /\ ~HasUnchanged(config_list[k])
  /\ ~RulePanics(config_list[k])
  /\ Len(result) <= MaxLen
  /\ RuleDone

\* any other count, colours with "unchanged": the rule is passed over
RuleUnchanged ==
  /\ pc = "rule"
  /\ k <= Len(config_list)
  /\ IsPattern(config_list[k])
  /\ HasUnchanged(config_list[k])
  /\ RuleDone

\* colours[0] of an empty list or Regex::new(..).unwrap() of an Err: the
\* thread panics and the process ends
RulePanic ==
  /\ pc = "rule"
  /\ k <= Len(config_list)
  /\ RulePanics(config_list[k])
  /\ pc' = "panic"
  /\ UNCHANGED << text, config_list, input, atEnd, nRead, nWritten, lastRead, out >>
  /\ UNCHANGED colourVars

\* the loop is over: println!("{}", result), input.clear()
PrintLine ==
  /\ pc = "rule"
  /\ k > Len(config_list)
  /\ out' = result \o <<LF>>
  /\ nWritten' = nWritten + 1
  /\ input' = <<>>
  /\ pc' = "read"
  /\ UNCHANGED << text, config_list, atEnd, nRead, lastRead >>
  /\ UNCHANGED colourVars

Next ==
  \/ ParseConfig
  \/ ReadLine
  \/ ReadEof
  \/ ReadError
  \/ SkipLine
  \/ BeginLine
  \/ RuleBlock
  \/ RuleUnblock
  \/ RulePattern
  \/ RuleUnchanged
  \/ RulePanic
  \/ PrintLine

Spec == Init /\ [][Next]_vars

(***************************************************************************)
(* The parser alone, over every configuration text of up to                *)
(* MaxConfigLines lines of LineMenu, and over a colours line for every raw *)
(* colour string of up to MaxPieces pieces of PieceMenu.                   *)
(***************************************************************************)
LineMenu ==
  { <<>>,
    <<"#", " ", "c">>,
    <<"#", "-">>,
    <<"-">>,
    <<"=", "=">>,
    <<" ", "a", "=", "b">>,
    <<"1", "=", "2">>,
    <<"j", "u", "n", "k">>,
    KV(K_regexp, <<"a">>),
    KV(K_colours, C_red),
    KV(<<"c", "o", "l", "o", "r">>, C_bold \o <<",">> \o C_blue),
    KV(K_count, V_block),
    KV(K_skip, V_yes),
    KV(<<"f", "o", "o">>, <<"b", "a", "r">>) }

FreeTexts == UNION { [1..n -> LineMenu] : n \in 0..MaxConfigLines }

PieceMenu ==
  { C_red,
    <<"b", "l", "i", "n", "k">>,
    <<"d", "e", "f", "a", "u", "l", "t">>,
    <<"y", "e", "l", "l", "o", "w">>,
    Unchanged,
    <<"z", "z">>,
    <<" ">>,
    <<",">>,
    <<TAB>> }

RECURSIVE Concat(_)
Concat(pieces) ==
  IF pieces = <<>> THEN <<>> ELSE Head(pieces) \o Concat(Tail(pieces))

\* the string of the test of get_colour_list
TestColours ==
  <<"d", "e", "f", "a", "u", "l", "t", ",", "b", "l", "i", "n", "k", " ",
    ",", "y", "e", "l", "l", "o", "w">>

RawColours ==
  { Concat(pieces) :
      pieces \in UNION { [1..n -> PieceMenu] : n \in 0..MaxPieces } }
  \cup { TestColours }

ColoursPrefix == K_colours \o <<"=">>

ColourTexts == { << ColoursPrefix \o raw >> : raw \in RawColours }

InitParse ==
  /\ text \in FreeTexts \cup ColourTexts
  /\ InitRest

NextParse == ParseConfig

SpecParse == InitParse /\ [][NextParse]_vars

(***************************************************************************)
(* Definitions the properties are stated with.                             *)
(***************************************************************************)
Reset == <<ESC, "[", "0", "m">>

\* p occurs in s
Contains(s, p) == \E i \in 1..(Len(s) + 1) : OccursAt(s, p, i)

\* wrap(text, colour) = colour ++ text ++ resolve("default")
Wrap(t, colour) == colour \o t \o Reset

\* the rule the loop has just been through
Last == config_list[k - 1]

\* the loop of get_output_line_by_config has been through at least one rule
AfterRule == pc = "rule" /\ k > 1

TruthySkip == { V_yes, V_one, V_true }

AnyTruthySkip ==
  \E i \in 1..Len(config_list) : config_list[i].skip \in TruthySkip

\* count_mode Once or More: any count but block and unblock
PatternRule(config) == config.count \notin { V_block, V_unblock }

ListsUnchanged(config) ==
  \E i \in 1..Len(config.colours) : config.colours[i] = Unchanged

\* the first index of b after p that holds c, or 0
NextIndex(b, c, p) ==
  IF \E j \in (p + 1)..Len(b) : b[j] = c
  THEN CHOOSE j \in (p + 1)..Len(b) :
         /\ b[j] = c
         /\ \A h \in (p + 1)..(j - 1) : b[h] # c
  ELSE 0

RECURSIVE IsSubseqFrom(_, _, _, _)
\* a from index i on can be found, in order, in b after index p
IsSubseqFrom(a, i, b, p) ==
  IF i > Len(a) THEN TRUE
  ELSE IF NextIndex(b, a[i], p) = 0 THEN FALSE
  ELSE IsSubseqFrom(a, i + 1, b, NextIndex(b, a[i], p))

\* a is b with some characters left out
IsSubseq(a, b) == IsSubseqFrom(a, 1, b, 0)

RECURSIVE InsertedFrom(_, _, _, _, _)
InsertedFrom(a, i, b, j, codes) ==
  IF j > Len(b) THEN i > Len(a)
  ELSE \/ /\ i <= Len(a)
          /\ a[i] = b[j]
          /\ InsertedFrom(a, i + 1, b, j + 1, codes)
       \/ \E c \in codes :
            /\ c # <<>>
            /\ OccursAt(b, c, j)
            /\ InsertedFrom(a, i, b, j + Len(c), codes)

\* b is a with whole copies of the codes inserted, and nothing else changed
InsertedOnly(a, b, codes) == a = b \/ InsertedFrom(a, 1, b, 1, codes)

\* the line terminator of a line read by read_line is removed, nothing else
StripTerminator(s) ==
  IF Len(s) >= 2 /\ s[Len(s) - 1] = CR /\ s[Len(s)] = LF
  THEN SubSeq(s, 1, Len(s) - 2)
  ELSE IF Len(s) >= 1 /\ s[Len(s)] = LF
       THEN SubSeq(s, 1, Len(s) - 1)
       ELSE s

\* a configuration line that separates two blocks
IsSeparator(l) ==
  /\ l # <<>>
  /\ l[1] # "#"
  /\ l[1] \notin AsciiAlphabetic

NumSeparators(lines) ==
  Cardinality({ i \in 1..Len(lines) : IsSeparator(lines[i]) })

\* the lines of the j-th block: those with j - 1 separators before them
InBlock(lines, j, i) ==
  /\ ~IsSeparator(lines[i])
  /\ NumSeparators(SubSeq(lines, 1, i - 1)) = j - 1

RECURSIVE RuleOfBlock(_, _, _, _)
\* the rule the lines of the j-th block give, from line i on
RuleOfBlock(lines, j, i, config) ==
  IF i > Len(lines) THEN config
  ELSE RuleOfBlock(lines, j, i + 1,
         IF InBlock(lines, j, i)
         THEN insert_content(config, parse_config_line(lines[i]))
         ELSE config)

\* the rule with default field values
DefaultRule ==
  [ regexp  |-> <<>>,
    colours |-> << <<>> >>,
    count   |-> <<"m", "o", "r", "e">>,
    command |-> <<>>,
    skip    |-> <<>>,
    replace |-> <<>>,
    concat  |-> <<>> ]

BlankOrComment(l) == l = <<>> \/ l[1] = "#"

RECURSIVE TokensFrom(_, _, _, _)
\* the non-empty tokens of s between separator characters, left to right
TokensFrom(s, i, cur, seps) ==
  IF i > Len(s) THEN IF cur = <<>> THEN <<>> ELSE << cur >>
  ELSE IF s[i] \in seps
       THEN (IF cur = <<>> THEN <<>> ELSE << cur >>)
            \o TokensFrom(s, i + 1, <<>>, seps)
       ELSE TokensFrom(s, i + 1, Append(cur, s[i]), seps)

\* the colour name resolver, as the specification's table gives it for the
\* names of PieceMenu
Resolve(name) ==
  IF name = C_red THEN <<ESC, "[", "3", "1", "m">>
  ELSE IF name = <<"b", "l", "i", "n", "k">> THEN <<ESC, "[", "5", "m">>
  ELSE IF name = <<"y", "e", "l", "l", "o", "w">> THEN <<ESC, "[", "3", "3", "m">>
  ELSE IF name = Unchanged THEN Unchanged
  ELSE Reset

\* one entry per non-empty token, in order, each resolved
ResolvedTokens(raw, seps) ==
  LET tokens == TokensFrom(raw, 1, <<>>, seps)
  IN  [ i \in 1..Len(tokens) |-> Resolve(tokens[i]) ]

\* the raw colour string of a one-line configuration `colours=<raw>`
RawOf(lines) == SubSeq(lines[1], Len(ColoursPrefix) + 1, Len(lines[1]))

IsColourText ==
  /\ Len(text) = 1
  /\ StartsWith(text[1], ColoursPrefix)

(***************************************************************************)
(* Properties.                                                             *)
(***************************************************************************)

\* C1: after a pattern rule (count once or more, colours without
\* "unchanged") has been applied to the current line, every match of its
\* pattern in that line (here: every match that is not empty) appears in
\* the rule's output wrapped as colours[0] ++ match ++ reset.
C1_EveryMatchWrapped ==
  (AfterRule /\ PatternRule(Last) /\ ~ListsUnchanged(Last)) =>
    LET ms == find_iter(RegexNew(Last.regexp), prev)
    IN  \A i \in 1..Len(ms) :
          ms[i][1] < ms[i][2] =>
            Contains(result,
                     Wrap(SubSeq(prev, ms[i][1] + 1, ms[i][2]),
                          Last.colours[1]))

\* C2: the rules are a chain: the text a rule works on is the output of the
\* rule before it, and the line returned after the last rule is the value
\* that rule produced.
C2_RulesChain ==
  AfterRule =>
    /\ ruleIn = prev
    /\ k > Len(config_list) => result = ruleRet

\* C3: a whole-line rule replaces the current line by the current line
\* wrapped in colours[0] (count block) or in the reset sequence (count
\* unblock).
C3_WholeLineWrapped ==
  AfterRule =>
    /\ Last.count = V_block => result = Wrap(prev, Last.colours[1])
    /\ Last.count = V_unblock => result = Wrap(prev, Reset)

\* C4: when some rule has skip "yes", "1" or "true", no line is ever
\* written, and no input line reaches the rules.
C4_SkipSuppressesAll ==
  (pc # "parse" /\ AnyTruthySkip) =>
    /\ nWritten = 0
    /\ pc \in { "read", "check", "done", "exit" }

\* two lines have been read and suppressed under a rule set whose second
\* rule alone has a truthy skip and whose first rule has a pattern
C4_Witness ==
  /\ pc = "done"
  /\ nRead = 2
  /\ Len(config_list) = 2
  /\ config_list[1].skip \notin TruthySkip
  /\ config_list[1].regexp = R_a_or_b
  /\ config_list[2].skip = V_one

\* C5: with no truthy skip, a line is written for every line read before
\* the next one is read, and it is the colourised form of the line read
\* with only its line terminator removed.
C5_Streaming ==
  (pc # "parse" /\ ~AnyTruthySkip) =>
    /\ pc = "check" => nWritten = nRead - 1
    /\ (pc \in { "read", "done" } /\ nRead > 0) =>
         /\ nWritten = nRead
         /\ out = get_output_line_by_config(StripTerminator(lastRead),
                                            config_list) \o <<LF>>

\* C6: once the stream is being processed the process never aborts on a
\* line.
C6_NoAbort == pc # "panic"

\* C9: a pattern rule whose colours list "unchanged" at any index leaves
\* the current line as it was, and the loop never panics on such a rule.
C9_UnchangedLeavesLine ==
  /\ (AfterRule /\ PatternRule(Last) /\ ListsUnchanged(Last)) => result = prev
  /\ pc = "panic" =>
       ~(PatternRule(config_list[k]) /\ ListsUnchanged(config_list[k]))

\* a pattern rule with "unchanged" second in its colours, whose pattern
\* matches the current line, has been applied
C9_Witness ==
  /\ AfterRule
  /\ PatternRule(Last)
  /\ Len(Last.colours) = 2
  /\ Last.colours[2] = Unchanged
  /\ RegexNewOk(Last.regexp)
  /\ find_iter(RegexNew(Last.regexp), prev) # <<>>

\* C10: after every rule the input line is a subsequence of the current
\* line, and the rule has changed it only by inserting copies of its
\* colours[0] and of the reset sequence.
C10_OnlyInserts ==
  /\ pc = "rule" => IsSubseq(line, result)
  /\ AfterRule =>
       InsertedOnly(prev, result,
                    { Reset } \cup { Last.colours[i] :
                                       i \in 1..Len(Last.colours) \cap {1} })

\* the second rule's pattern has matched inside the escape codes the first
\* rule injected
C10_Witness ==
  /\ AfterRule
  /\ k = 3
  /\ ~Contains(line, Last.regexp)
  /\ Last.regexp # <<>>
  /\ prev # line
  /\ result # prev

\* C7: parsing yields one rule more than the text has separator lines, the
\* j-th rule being the one the lines of the j-th block give; a text of
\* blank and comment lines alone yields the one default rule.
C7_RulesPerSeparator ==
  pc = "read" =>
    /\ Len(config_list) = NumSeparators(text) + 1
    /\ \A j \in 1..Len(config_list) :
         config_list[j] = RuleOfBlock(text, j, 1, ColourConfig_new)
    /\ (\A i \in 1..Len(text) : BlankOrComment(text[i])) =>
         config_list = << DefaultRule >>

\* a text with a separator, a comment or blank line and a line without `=`
\* has been parsed
C7_Witness ==
  /\ pc = "read"
  /\ NumSeparators(text) >= 1
  /\ \E i \in 1..Len(text) : BlankOrComment(text[i])
  /\ \E i \in 1..Len(text) : text[i] = <<"j", "u", "n", "k">>

\* C8: the colour list of `colours=<raw>` has one entry per non-empty token
\* of raw between commas and whitespace, in order, each resolved.
C8_SplitOnWhitespace ==
  (pc = "read" /\ IsColourText) =>
    config_list[1].colours = ResolvedTokens(RawOf(text), { "," } \cup WhiteSpace)

\* the same with the space character as the only whitespace
ColourListSplitsOnSpace ==
  (pc = "read" /\ IsColourText) =>
    config_list[1].colours = ResolvedTokens(RawOf(text), { ",", " " })

====
